---------------------------- MODULE Spec2Model ----------------------------
(***************************************************************************)
(* The upgrade job of mayastor-extensions: the rolling restart of the      *)
(* io-engine (data-plane) pods, upgrade-job/src/upgrade/data_plane.rs and  *)
(* upgrade-job/src/upgrade/utils.rs.                                       *)
(*                                                                         *)
(* The orchestrator is one sequential task; every request it sends to the  *)
(* kube API or to the storage REST API is one step.  The storage nodes'    *)
(* cordon/drain labels and the volumes' rebuilds change on their own       *)
(* between the orchestrator's steps.                                       *)
(***************************************************************************)
EXTENDS Integers, Sequences, FiniteSets, TLC

(***************************************************************************)
(* Bounds of the model.                                                    *)
(***************************************************************************)
NumNodes == 2
MaxPods == 2
MaxListed == 2
MaxPages == 2
MaxEntries == 2
MaxPolls == 3
MaxOwners == 2

\* Duration::from_secs(60_u64): the grace period of wait_for_rebuild
GracePeriod == 60

Nodes == 1 .. NumNodes

(***************************************************************************)
(* Values.  An Option is a sequence: <<>> is None and <<x>> is Some(x).    *)
(***************************************************************************)
Some(x) == <<x>>
NoValue == <<>>
None == "None"

\* openapi::models::CordonDrainState as node_spec.cordondrainstate reports it
CordonDrainStates == {"cordonedstate", "drainingstate", "drainedstate", None}

\* a pod condition: type_ and status
Ready(status) == [type_ |-> "Ready", status |-> status]
PodScheduled == [type_ |-> "PodScheduled", status |-> "True"]

\* pod.status.conditions of a listed pod
ConditionLists ==
    { NoValue, Some(<<>>), Some(<<Ready("True")>>), Some(<<Ready("False")>>),
      Some(<<PodScheduled, Ready("True")>>), Some(<<Ready("True"), PodScheduled>>) }

\* a listed pod: spec present or not, spec.node_name (0: None), the conditions
Pods ==
    { p \in [has_spec : BOOLEAN, node_name : 0 .. NumNodes, conditions : ConditionLists] :
        ~p.has_spec => (p.node_name = 0 /\ p.conditions = NoValue) }

SeqsUpTo(S, n) == UNION { [1 .. k -> S] : k \in 0 .. n }

\* what pods.list(...) may return
PodLists == SeqsUpTo(Pods, MaxListed)

\* what pods.list(...) may return for a control-plane label: the node is not read
ControlPlanePodLists ==
    SeqsUpTo({ p \in Pods : p.has_spec /\ p.node_name = 1 }, MaxListed)

\* the listing upgrade_data_plane starts from: only spec.node_name is read
InitialPodLists ==
    SeqsUpTo({ p \in Pods : p.conditions = (IF p.has_spec THEN Some(<<Ready("True")>>) ELSE NoValue) },
             MaxPods)

\* a volume's state.target: None, or the children's rebuild_progress.is_some()
Targets == { NoValue, Some(<<FALSE, FALSE>>), Some(<<FALSE, TRUE>>) }

\* the volume inventory as the REST API pages it: at least one page
Inventories ==
    UNION { [1 .. k -> SeqsUpTo(Targets, MaxEntries)] : k \in 1 .. MaxPages }

Polls == {"is_draining", "is_rebuilding", "is_data_plane_pod_running"}
NoPolls == [p \in Polls |-> "none"]

Ok(v) == [err |-> None, val |-> v]
Err(e) == [err |-> e, val |-> FALSE]

\* a panic in place of a returned value
Panic == [err |-> "panic", val |-> FALSE]

(***************************************************************************)
(* What main reads at startup.                                             *)
(***************************************************************************)
\* `helm version --short`: the command cannot be run, or what it prints
HelmVersions == {"absent", "v2", "v3"}

\* the deployed releases of the namespace as `helm list` shows them: none whose
\* name contains the release name, only one with a longer name that contains it,
\* or the release itself
ReleaseLists == {"none", "other", "exact"}

\* the chart of the release: the umbrella chart, the core chart, another chart
Charts == {"umbrella", "core", "other"}

\* --umbrella-chart-dir, --core-chart-dir: not given, or a path that holds the
\* chart of its variant or does not
ChartDirs == { NoValue, Some("valid"), Some("invalid") }

OwnerKinds == {"Job", "ReplicaSet"}

\* pod.metadata.owner_references
OwnerReferences == { NoValue } \cup { Some(o) : o \in SeqsUpTo(OwnerKinds, MaxOwners) }

\* how the `helm upgrade` subprocess ends
HelmUpgradeOutcomes == {"spawn_error", "exit_0", "exit_1"}

\* the startup steps of main, in its order
startup_steps ==
    << "init_logging", "CliArgs::try_parse", "get_or_init_clients",
       "validate_helmv3_in_path", "validate_helm_release", "validate_helm_chart_dirs",
       "generate_event_recorder_for_k8s_job", "HelmUpgrade::build", "HelmUpgrade::run",
       "HelmClient::upgrade" >>

\* the process before main's first statement
new_job ==
    [ helm_version |-> "unread", short_list |-> "unread", release |-> "unread",
      umbrella_dir |-> NoValue, core_dir |-> NoValue, restart |-> FALSE,
      owner_references |-> NoValue, chart_variant |-> "Umbrella",
      helm_upgrade |-> "none", trace |-> << >>, exit |-> NoValue ]

\* the process when upgrade calls upgrade_data_plane
started_job ==
    [ helm_version |-> "v3", short_list |-> "exact", release |-> "umbrella",
      umbrella_dir |-> Some("valid"), core_dir |-> NoValue, restart |-> TRUE,
      owner_references |-> Some(Some(<< "Job" >>)), chart_variant |-> "Umbrella",
      helm_upgrade |-> "exit_0", trace |-> startup_steps, exit |-> NoValue ]

(***************************************************************************)
(* opts/validators.rs                                                      *)
(***************************************************************************)
\* every version passes
validate_helmv3_in_path_any_version(version) ==
    IF version = "absent" THEN Err("HelmCommand") ELSE Ok(TRUE)

\* the regex ^(v3\.[0-9]+\.[0-9]) on the output of `helm version --short`
validate_helmv3_in_path(version) ==
    IF version = "absent" THEN Err("HelmCommand")
    ELSE IF version # "v3" THEN Err("HelmVersion")
    ELSE Ok(TRUE)

\* the regex (\n)?{name}(\n)? on the output of `helm list --deployed --short`:
\* it matches when the name occurs anywhere in the output
validate_helm_release(listed) ==
    IF listed = "none" THEN Err("HelmRelease") ELSE Ok(TRUE)

\* validate_helm_chart_variant_in_dir for each directory that is given
validate_helm_chart_dirs(umbrella_dir, core_dir) ==
    IF umbrella_dir = Some("invalid") THEN Err("NotADirectory")
    ELSE IF core_dir = Some("invalid") THEN Err("NotADirectory")
    ELSE Ok(TRUE)

(***************************************************************************)
(* _k8s/event_helper.rs                                                    *)
(***************************************************************************)
\* the length is checked before the first owner is read
generate_event_recorder_length_first(owner_references) ==
    IF owner_references = NoValue THEN Err("JobPodOwnerNotFound")
    ELSE IF Len(owner_references[1]) # 1 THEN Err("JobPodHasTooManyOwners")
    ELSE IF owner_references[1][1] # "Job" THEN Err("JobPodOwnerIsNotJob")
    ELSE Ok(TRUE)

\* generate_event_recorder_for_k8s_job on the owner references of the job's pod:
\* owner_references.clone().unwrap()[0] comes before the check of the length
generate_event_recorder_for_k8s_job(owner_references) ==
    IF owner_references = NoValue THEN Err("JobPodOwnerNotFound")
    ELSE IF Len(owner_references[1]) = 0 THEN Panic
    ELSE IF Len(owner_references[1]) # 1 THEN Err("JobPodHasTooManyOwners")
    ELSE IF owner_references[1][1] # "Job" THEN Err("JobPodOwnerIsNotJob")
    ELSE Ok(TRUE)

(***************************************************************************)
(* helm/client.rs, helm/upgrade.rs                                         *)
(***************************************************************************)
\* HelmClient::release_info: the listed release of that very name, or a panic
release_info(listed, chart) ==
    IF listed = "exact" THEN Ok(chart) ELSE Panic

\* HelmUpgrade::build: the chart variant from the chart name of the release
build(chart) ==
    IF chart = "umbrella" THEN Ok("Umbrella")
    ELSE IF chart = "core" THEN Ok("Core")
    ELSE Err("NoInputHelmChartDir")

\* HelmUpgrade::run, `match self.chart_variant`: the directory of the variant
chart_dir(chart_variant, umbrella_dir, core_dir) ==
    LET dir == IF chart_variant = "Umbrella" THEN umbrella_dir ELSE core_dir
    IN  IF dir = NoValue THEN Err("NoInputHelmChartDir") ELSE Ok(dir[1])

\* the exit status of the helm upgrade is read
client_upgrade_checks_status(outcome) ==
    IF outcome = "exit_0" THEN Ok(TRUE) ELSE Err("HelmCommand")

\* HelmClient::upgrade: Command::output() fails only when helm cannot be run
client_upgrade(outcome) ==
    IF outcome = "spawn_error" THEN Err("HelmCommand") ELSE Ok(TRUE)

(***************************************************************************)
(* common/error.rs                                                         *)
(***************************************************************************)
\* the exit status the parent sees for std::process::exit(code)
exit_status(code) == code % 256

VARIABLES
    pc,                \* where upgrade_data_plane is
    err,               \* the Error the run ended with, or None
    pod_list,          \* initial_io_engine_pod_list
    idx,               \* position of `pod` in the for loop over pod_list
    cordoned,          \* the local is_node_cordoned of this iteration
    starting_token,    \* is_rebuilding's starting_token
    cordondrainstate,  \* per node: node.spec.cordondrainstate as GET reports it
    upgrade_label,     \* per node: the DRAIN_FOR_UPGRADE drain label is applied
    volumes,           \* the volume inventory, in pages
    steps,             \* this iteration's steps in the order they began
    completed,         \* how many of them returned Ok
    snapshot,          \* the cordondrainstate is_node_cordoned read
    last_poll,         \* what the last evaluation of each wait's predicate returned
    listed_ready,      \* the last readiness poll listed a Ready pod on the node
    requested,         \* starting tokens is_rebuilding requested in this call
    busy,              \* evaluations of this wait's predicate that returned true
    sleeps,            \* 10 s sleeps of this wait
    acted,             \* loop positions for which a request was issued
    verified,          \* loop positions that passed is_control_plane_running
    deleted,           \* loop positions whose pod's delete succeeded
    drains,            \* nodes of the drain requests issued, in order
    uncordons,         \* uncordon requests of this iteration
    grace,             \* seconds wait_for_rebuild slept before its first is_rebuilding
    cp_listed,         \* labels listed by this is_control_plane_running call
    job                \* the process: what main read, the steps it ran, its exit status

vars == << pc, err, pod_list, idx, cordoned, starting_token, cordondrainstate,
           upgrade_label, volumes, steps, completed, snapshot, last_poll,
           listed_ready, requested, busy, sleeps, acted, verified, deleted, drains,
           uncordons, grace, cp_listed, job >>

env_vars == << cordondrainstate, upgrade_label, volumes >>
node_vars == << cordondrainstate, upgrade_label >>
loop_vars == << pod_list, idx, cordoned, snapshot >>
wait_vars == << busy, sleeps >>

(***************************************************************************)
(* The storage control plane, as the REST API shows it.                    *)
(***************************************************************************)
\* the node is draining or drained: some drain label is applied to it
has_drain_label(n) == cordondrainstate[n] \in {"drainingstate", "drainedstate"}

\* GET /nodes: the nodes in id order; node `bad` (0: none) comes without a spec
get_nodes(bad) ==
    [ n \in Nodes |-> [id |-> n,
                       spec |-> IF n = bad THEN NoValue ELSE Some(cordondrainstate[n])] ]

\* GET /nodes/{id}
get_node(n, bad) == get_nodes(bad)[n]

\* GET /volumes?starting_token=t: a page's entries and the next token
get_volumes(t) ==
    [ entries |-> volumes[t + 1],
      next_token |-> IF t + 1 < Len(volumes) THEN Some(t + 1) ELSE NoValue ]

(***************************************************************************)
(* upgrade/utils.rs                                                        *)
(***************************************************************************)
\* the for loop of is_draining from node i of the list on
RECURSIVE is_draining_from(_, _)
is_draining_from(nodelist, i) ==
    IF i > Len(nodelist) THEN Ok(FALSE)
    ELSE IF nodelist[i].spec = NoValue THEN Err("EmptyStorageNodeSpec")
    ELSE IF nodelist[i].spec[1] = "drainingstate" THEN Ok(TRUE)
    ELSE is_draining_from(nodelist, i + 1)

\* the match arms of drainingstate and drainedstate exchanged
is_draining_arms_swapped(nodelist) ==
    IF \E i \in 1 .. Len(nodelist) : nodelist[i].spec = NoValue
    THEN Err("EmptyStorageNodeSpec")
    ELSE Ok(\E i \in 1 .. Len(nodelist) : nodelist[i].spec[1] = "drainedstate")

\* the loop without its break: the last node of the list decides
is_draining_without_break(nodelist) ==
    IF \E i \in 1 .. Len(nodelist) : nodelist[i].spec = NoValue
    THEN Err("EmptyStorageNodeSpec")
    ELSE Ok(nodelist[Len(nodelist)].spec[1] = "drainingstate")

is_draining(nodelist) == is_draining_from(nodelist, 1)

\* the match arms of cordonedstate and drainedstate exchanged
is_node_cordoned_arms_swapped(node_body) ==
    IF node_body.spec = NoValue THEN Err("EmptyStorageNodeSpec")
    ELSE Ok(node_body.spec[1] = "drainedstate")

\* true for every node that has a cordondrainstate
is_node_cordoned_any_state(node_body) ==
    IF node_body.spec = NoValue THEN Err("EmptyStorageNodeSpec")
    ELSE Ok(node_body.spec[1] # None)

\* the drainedstate arm returns true as the cordonedstate arm does
is_node_cordoned_drained_too(node_body) ==
    IF node_body.spec = NoValue THEN Err("EmptyStorageNodeSpec")
    ELSE Ok(node_body.spec[1] \in {"cordonedstate", "drainedstate"})

is_node_cordoned(node_body) ==
    IF node_body.spec = NoValue THEN Err("EmptyStorageNodeSpec")
    ELSE CASE node_body.spec[1] = "cordonedstate" -> Ok(TRUE)
           [] node_body.spec[1] = "drainingstate" -> Ok(FALSE)
           [] node_body.spec[1] = "drainedstate" -> Ok(FALSE)
           [] node_body.spec[1] = None -> Ok(FALSE)

\* the rebuild markers are not looked at
page_rebuilding_never(entries) == FALSE

\* a volume of a page has a target with a child that has a rebuild_progress
page_rebuilding(entries) ==
    \E i \in 1 .. Len(entries) :
        /\ entries[i] # NoValue
        /\ \E c \in 1 .. Len(entries[i][1]) : entries[i][1][c]

condition_ready(condition) == condition.type_ = "Ready" /\ condition.status = "True"

\* a listing without a pod is not ready
all_pods_are_ready_needs_a_pod(list) ==
    /\ list # << >>
    /\ \A i \in 1 .. Len(list) :
          /\ list[i].conditions # NoValue
          /\ \A c \in 1 .. Len(list[i].conditions[1]) :
                 condition_ready(list[i].conditions[1][c])

\* all_pods_are_ready(pod_list).0
all_pods_are_ready(list) ==
    \A i \in 1 .. Len(list) :
        /\ list[i].conditions # NoValue
        /\ \A c \in 1 .. Len(list[i].conditions[1]) :
               condition_ready(list[i].conditions[1][c])

(***************************************************************************)
(* upgrade/data_plane.rs: is_data_plane_pod_running                        *)
(***************************************************************************)
\* the for loop over a pod's conditions: the flag after conditions i ..
RECURSIVE conditions_loop(_, _, _)
conditions_loop(conditions, i, running) ==
    IF i > Len(conditions) THEN running
    ELSE conditions_loop(conditions, i + 1, condition_ready(conditions[i]))

\* the for loop over the listed pods from pod i on
RECURSIVE is_data_plane_pod_running_from(_, _, _, _)
is_data_plane_pod_running_from(node, list, i, running) ==
    IF i > Len(list) THEN Ok(running)
    ELSE IF ~list[i].has_spec THEN Err("EmptyPodSpec")
    ELSE IF list[i].node_name = 0 THEN Err("EmptyPodNodeName")
    ELSE IF list[i].node_name # node
         THEN is_data_plane_pod_running_from(node, list, i + 1, running)
    ELSE IF list[i].conditions = NoValue
         THEN is_data_plane_pod_running_from(node, list, i + 1, FALSE)
    ELSE is_data_plane_pod_running_from(node, list, i + 1,
             conditions_loop(list[i].conditions[1], 1, running))

\* pods of other nodes and pods without a node are passed over unread
is_data_plane_pod_running_own_node_only(node, list) ==
    is_data_plane_pod_running_from(node,
        SelectSeq(list, LAMBDA p : p.has_spec /\ p.node_name = node), 1, FALSE)

\* let mut data_plane_pod_running = true
is_data_plane_pod_running_starts_true(node, list) ==
    is_data_plane_pod_running_from(node, list, 1, TRUE)

is_data_plane_pod_running(node, list) ==
    is_data_plane_pod_running_from(node, list, 1, FALSE)

(***************************************************************************)
(* upgrade/data_plane.rs: upgrade_data_plane, one request a step           *)
(***************************************************************************)
\* the node of the first pod of the listing, whatever pod the loop is at
node_name_of_first_pod == pod_list[1].node_name

\* the node of the pod the for loop is at
node_name == pod_list[idx].node_name

\* etcd checked first
control_plane_labels_etcd_first == << "ETCD_LABEL", "AGENT_CORE_LABEL", "API_REST_LABEL" >>

\* the labels is_control_plane_running lists, in its order
control_plane_labels == << "AGENT_CORE_LABEL", "API_REST_LABEL", "ETCD_LABEL" >>

\* a step of the iteration begins: a wait's polls are one step
begin(step) ==
    IF steps # << >> /\ steps[Len(steps)] = step THEN steps ELSE Append(steps, step)

\* the Err is recorded and the for loop goes on
fail_and_continue(e) == pc' = "for_pod" /\ err' = e

\* the Err is recorded and the failed step is taken again
fail_and_retry(e) == pc' = pc /\ err' = e

\* the `?` on an Err: upgrade_data_plane returns it
fail(e) == pc' = "failed" /\ err' = e

\* the condition of the while loop negated
keep_waiting_inverted(value) == ~value

\* `while predicate().await? { sleep }`: the wait goes on while the predicate is true
keep_waiting(value) == value

\* the next_token of the first page is not followed
more_pages_never(token) == FALSE

\* `while starting_token.is_some()`: is_rebuilding requests another page
more_pages(token) == token # NoValue

\* a pod on `node` with a condition Ready = True is among the listed pods
ready_pod_listed(node, list) ==
    \E i \in 1 .. Len(list) :
        /\ list[i].has_spec /\ list[i].node_name = node
        /\ list[i].conditions # NoValue
        /\ \E c \in 1 .. Len(list[i].conditions[1]) :
               condition_ready(list[i].conditions[1][c])

\* what a readiness poll for `node` can come to, over every listing of io-engine
\* pods: is_data_plane_pod_running's result, and whether a Ready pod was listed
data_plane_polls[node \in Nodes] ==
    { [result |-> is_data_plane_pod_running(node, list),
       ready |-> ready_pod_listed(node, list)] : list \in PodLists }

\* what all_pods_are_ready can come to, over every listing of a control-plane label
control_plane_polls == { all_pods_are_ready(list) : list \in ControlPlanePodLists }

\* pods.list(io-engine) at the start of upgrade_data_plane
list_pods ==
    /\ pc = "list"
    /\ \/ /\ fail("ListPodsWithLabel")
          /\ UNCHANGED pod_list
       \/ /\ \E l \in InitialPodLists : pod_list' = l
          /\ pc' = "for_pod"
          /\ err' = err
    /\ UNCHANGED << idx, cordoned, snapshot, starting_token, env_vars, steps,
                    completed, last_poll, listed_ready, requested, busy, sleeps,
                    acted, verified, deleted, drains, uncordons, grace, cp_listed >>
    /\ UNCHANGED job

\* a pod without spec or node name is passed over: the loop continues with the next
for_pod_skips_unassigned ==
    /\ pc = "for_pod"
    /\ IF idx = Len(pod_list)
       THEN /\ pc' = "done"
            /\ UNCHANGED << err, idx, steps, completed, last_poll, listed_ready,
                            requested, busy, sleeps, uncordons, grace, cp_listed,
                            cordoned, snapshot >>
       ELSE /\ idx' = idx + 1
            /\ steps' = << >>
            /\ completed' = 0
            /\ last_poll' = NoPolls
            /\ listed_ready' = FALSE
            /\ requested' = << >>
            /\ busy' = 0
            /\ sleeps' = 0
            /\ uncordons' = 0
            /\ grace' = 0
            /\ cp_listed' = << >>
            /\ cordoned' = FALSE
            /\ snapshot' = None
            /\ IF ~pod_list[idx + 1].has_spec \/ pod_list[idx + 1].node_name = 0
               THEN UNCHANGED << pc, err >>
               ELSE pc' = "is_node_cordoned" /\ err' = err
    /\ UNCHANGED << pod_list, starting_token, env_vars, acted, verified, deleted, drains >>
    /\ UNCHANGED job

\* the for loop stays at the pod it is at while the listing has a later one
for_pod_stays_at_pod ==
    /\ pc = "for_pod"
    /\ IF idx = Len(pod_list)
       THEN /\ pc' = "done"
            /\ UNCHANGED << err, idx, steps, completed, last_poll, listed_ready,
                            requested, busy, sleeps, uncordons, grace, cp_listed,
                            cordoned, snapshot >>
       ELSE /\ idx' = IF idx = 0 THEN 1 ELSE idx
            /\ steps' = << >>
            /\ completed' = 0
            /\ last_poll' = NoPolls
            /\ listed_ready' = FALSE
            /\ requested' = << >>
            /\ busy' = 0
            /\ sleeps' = 0
            /\ uncordons' = 0
            /\ grace' = 0
            /\ cp_listed' = << >>
            /\ cordoned' = FALSE
            /\ snapshot' = None
            /\ IF ~pod_list[idx'].has_spec THEN fail("EmptyPodSpec")
               ELSE IF pod_list[idx'].node_name = 0 THEN fail("EmptyPodNodeName")
               ELSE pc' = "is_node_cordoned" /\ err' = err
    /\ UNCHANGED << pod_list, starting_token, env_vars, acted, verified, deleted, drains >>
    /\ UNCHANGED job

\* the head of the for loop: the next pod and its node name, or Ok(())
for_pod ==
    /\ pc = "for_pod"
    /\ IF idx = Len(pod_list)
       THEN /\ pc' = "done"
            /\ UNCHANGED << err, idx, steps, completed, last_poll, listed_ready,
                            requested, busy, sleeps, uncordons, grace, cp_listed,
                            cordoned, snapshot >>
       ELSE /\ idx' = idx + 1
            /\ steps' = << >>
            /\ completed' = 0
            /\ last_poll' = NoPolls
            /\ listed_ready' = FALSE
            /\ requested' = << >>
            /\ busy' = 0
            /\ sleeps' = 0
            /\ uncordons' = 0
            /\ grace' = 0
            /\ cp_listed' = << >>
            /\ cordoned' = FALSE
            /\ snapshot' = None
            /\ IF ~pod_list[idx + 1].has_spec THEN fail("EmptyPodSpec")
               ELSE IF pod_list[idx + 1].node_name = 0 THEN fail("EmptyPodNodeName")
               ELSE pc' = "is_node_cordoned" /\ err' = err
    /\ UNCHANGED << pod_list, starting_token, env_vars, acted, verified, deleted, drains >>
    /\ UNCHANGED job

\* let is_node_cordoned = is_node_cordoned(node_name).await?
call_is_node_cordoned ==
    /\ pc = "is_node_cordoned"
    /\ steps' = begin("is_node_cordoned")
    /\ acted' = acted \cup {idx}
    /\ \E failed \in BOOLEAN, bad \in {0, node_name} :
         LET r == IF failed THEN Err("GetStorageNode")
                  ELSE is_node_cordoned(get_node(node_name, bad))
         IN  IF r.err # None
             THEN fail(r.err) /\ UNCHANGED << cordoned, snapshot, completed >>
             ELSE /\ cordoned' = r.val
                  /\ snapshot' = cordondrainstate[node_name]
                  /\ completed' = completed + 1
                  /\ pc' = "issue_node_drain"
                  /\ err' = err
    /\ UNCHANGED << pod_list, idx, starting_token, env_vars, last_poll, listed_ready,
                    requested, busy, sleeps, verified, deleted, drains, uncordons, grace, cp_listed >>
    /\ UNCHANGED job

\* put_node_drain(node_name, DRAIN_FOR_UPGRADE)
issue_node_drain ==
    /\ pc = "issue_node_drain"
    /\ steps' = begin("issue_node_drain")
    /\ acted' = acted \cup {idx}
    /\ drains' = Append(drains, node_name)
    /\ \/ /\ fail("DrainStorageNode")
          /\ UNCHANGED << upgrade_label, cordondrainstate, completed >>
       \/ /\ upgrade_label' = [upgrade_label EXCEPT ![node_name] = TRUE]
          /\ cordondrainstate' = [cordondrainstate EXCEPT ![node_name] =
                 IF has_drain_label(node_name) THEN @ ELSE "drainingstate"]
          /\ completed' = completed + 1
          /\ pc' = "wait_node_drain"
          /\ err' = err
    /\ UNCHANGED << loop_vars, starting_token, volumes, last_poll,
                    listed_ready, requested, busy, sleeps, verified, deleted,
                    uncordons, grace, cp_listed >>
    /\ UNCHANGED job

\* loop { sleep(10 s); if !is_draining().await? { break } }
wait_node_drain_sleep_first ==
    /\ pc = "wait_node_drain"
    /\ steps' = begin("wait_node_drain")
    /\ sleeps' = sleeps + 1
    /\ \E failed \in BOOLEAN, bad \in 0 .. NumNodes :
         LET r == IF failed THEN Err("ListStorageVolumes")
                  ELSE is_draining(get_nodes(bad))
         IN  IF r.err # None
             THEN /\ fail(r.err)
                  /\ last_poll' = [last_poll EXCEPT !["is_draining"] = "error"]
                  /\ UNCHANGED << busy, completed >>
             ELSE IF r.val
             THEN /\ busy < MaxPolls
                  /\ busy' = busy + 1
                  /\ last_poll' = [last_poll EXCEPT !["is_draining"] = "true"]
                  /\ UNCHANGED << pc, err, completed >>
             ELSE /\ last_poll' = [last_poll EXCEPT !["is_draining"] = "false"]
                  /\ completed' = completed + 1
                  /\ pc' = "wait_for_rebuild"
                  /\ UNCHANGED << err, busy >>
    /\ UNCHANGED << loop_vars, starting_token, env_vars, listed_ready, requested,
                    acted, verified, deleted, drains, uncordons, grace, cp_listed >>
    /\ UNCHANGED job

\* while is_draining().await.unwrap_or(true) { sleep(10 s) }: an Err is polled again
wait_node_drain_retries_on_error ==
    /\ pc = "wait_node_drain"
    /\ steps' = begin("wait_node_drain")
    /\ \E failed \in BOOLEAN, bad \in 0 .. NumNodes :
         LET r == IF failed THEN Err("ListStorageVolumes")
                  ELSE is_draining(get_nodes(bad))
         IN  IF r.err # None
             THEN /\ sleeps < MaxPolls
                  /\ sleeps' = sleeps + 1
                  /\ last_poll' = [last_poll EXCEPT !["is_draining"] = "error"]
                  /\ UNCHANGED << pc, err, busy, completed >>
             ELSE IF keep_waiting(r.val)
             THEN /\ busy < MaxPolls
                  /\ busy' = busy + 1
                  /\ sleeps' = sleeps + 1
                  /\ last_poll' = [last_poll EXCEPT !["is_draining"] =
                                      IF r.val THEN "true" ELSE "false"]
                  /\ UNCHANGED << pc, err, completed >>
             ELSE /\ last_poll' = [last_poll EXCEPT !["is_draining"] =
                                      IF r.val THEN "true" ELSE "false"]
                  /\ completed' = completed + 1
                  /\ pc' = "wait_for_rebuild"
                  /\ UNCHANGED << err, busy, sleeps >>
    /\ UNCHANGED << loop_vars, starting_token, env_vars, listed_ready, requested,
                    acted, verified, deleted, drains, uncordons, grace, cp_listed >>
    /\ UNCHANGED job

\* the wait gives up after two sleeps and returns Ok(())
wait_node_drain_times_out ==
    /\ pc = "wait_node_drain"
    /\ steps' = begin("wait_node_drain")
    /\ \E failed \in BOOLEAN, bad \in 0 .. NumNodes :
         LET r == IF failed THEN Err("ListStorageVolumes")
                  ELSE is_draining(get_nodes(bad))
         IN  IF r.err # None
             THEN /\ fail(r.err)
                  /\ last_poll' = [last_poll EXCEPT !["is_draining"] = "error"]
                  /\ UNCHANGED << busy, sleeps, completed >>
             ELSE IF keep_waiting(r.val) /\ sleeps < 2
             THEN /\ busy < MaxPolls
                  /\ busy' = busy + 1
                  /\ sleeps' = sleeps + 1
                  /\ last_poll' = [last_poll EXCEPT !["is_draining"] =
                                      IF r.val THEN "true" ELSE "false"]
                  /\ UNCHANGED << pc, err, completed >>
             ELSE /\ last_poll' = [last_poll EXCEPT !["is_draining"] =
                                      IF r.val THEN "true" ELSE "false"]
                  /\ completed' = completed + 1
                  /\ pc' = "wait_for_rebuild"
                  /\ UNCHANGED << err, busy, sleeps >>
    /\ UNCHANGED << loop_vars, starting_token, env_vars, listed_ready, requested,
                    acted, verified, deleted, drains, uncordons, grace, cp_listed >>
    /\ UNCHANGED job

\* while is_draining().await? { sleep(10 s) }
wait_node_drain ==
    /\ pc = "wait_node_drain"
    /\ steps' = begin("wait_node_drain")
    /\ \E failed \in BOOLEAN, bad \in 0 .. NumNodes :
         LET r == IF failed THEN Err("ListStorageVolumes")
                  ELSE is_draining(get_nodes(bad))
         IN  IF r.err # None
             THEN /\ fail(r.err)
                  /\ last_poll' = [last_poll EXCEPT !["is_draining"] = "error"]
                  /\ UNCHANGED << busy, sleeps, completed >>
             ELSE IF keep_waiting(r.val)
             THEN /\ busy < MaxPolls
                  /\ busy' = busy + 1
                  /\ sleeps' = sleeps + 1
                  /\ last_poll' = [last_poll EXCEPT !["is_draining"] =
                                      IF r.val THEN "true" ELSE "false"]
                  /\ UNCHANGED << pc, err, completed >>
             ELSE /\ last_poll' = [last_poll EXCEPT !["is_draining"] =
                                      IF r.val THEN "true" ELSE "false"]
                  /\ completed' = completed + 1
                  /\ pc' = "wait_for_rebuild"
                  /\ UNCHANGED << err, busy, sleeps >>
    /\ UNCHANGED << loop_vars, starting_token, env_vars, listed_ready, requested,
                    acted, verified, deleted, drains, uncordons, grace, cp_listed >>
    /\ UNCHANGED job

\* the 60 s sleep left out: is_rebuilding is evaluated at once
wait_for_rebuild_without_grace ==
    /\ pc = "wait_for_rebuild"
    /\ steps' = begin("wait_for_rebuild")
    /\ pc' = "is_rebuilding"
    /\ starting_token' = Some(0)
    /\ requested' = << >>
    /\ busy' = 0
    /\ sleeps' = 0
    /\ grace' = 0
    /\ UNCHANGED << err, loop_vars, env_vars, completed, last_poll, listed_ready,
                    acted, verified, deleted, drains, uncordons, cp_listed >>
    /\ UNCHANGED job

\* wait_for_rebuild: the 60 s sleep before the first is_rebuilding
wait_for_rebuild ==
    /\ pc = "wait_for_rebuild"
    /\ steps' = begin("wait_for_rebuild")
    /\ pc' = "is_rebuilding"
    /\ starting_token' = Some(0)
    /\ requested' = << >>
    /\ busy' = 0
    /\ sleeps' = 0
    /\ grace' = GracePeriod
    /\ UNCHANGED << err, loop_vars, env_vars, completed, last_poll, listed_ready,
                    acted, verified, deleted, drains, uncordons, cp_listed >>
    /\ UNCHANGED job

\* a failed page request ends the pagination: Ok(false) from the pages scanned so far
is_rebuilding_page_error_ends_scan ==
    /\ pc = "is_rebuilding"
    /\ LET t == starting_token[1]
           vols == get_volumes(t)
           found == page_rebuilding(vols.entries)
       IN  /\ requested' = IF t = 0 THEN << 0 >> ELSE Append(requested, t)
           /\ \/ /\ last_poll' = [last_poll EXCEPT !["is_rebuilding"] = "error"]
                 /\ starting_token' = NoValue
                 /\ completed' = completed + 1
                 /\ pc' = "restart_data_plane"
                 /\ UNCHANGED << err, busy, sleeps >>
              \/ IF ~found /\ more_pages(vols.next_token)
                 THEN \* the next turn of is_rebuilding's loop
                      /\ starting_token' = vols.next_token
                      /\ last_poll' = [last_poll EXCEPT !["is_rebuilding"] = "none"]
                      /\ UNCHANGED << pc, err, busy, sleeps, completed >>
                 ELSE IF keep_waiting(found)
                 THEN \* is_rebuilding returned: sleep, and call it again
                      /\ busy < MaxPolls
                      /\ busy' = busy + 1
                      /\ sleeps' = sleeps + 1
                      /\ starting_token' = Some(0)
                      /\ last_poll' = [last_poll EXCEPT !["is_rebuilding"] =
                                          IF found THEN "true" ELSE "false"]
                      /\ UNCHANGED << pc, err, completed >>
                 ELSE \* is_rebuilding returned: wait_for_rebuild returns Ok(())
                      /\ last_poll' = [last_poll EXCEPT !["is_rebuilding"] =
                                          IF found THEN "true" ELSE "false"]
                      /\ starting_token' = NoValue
                      /\ completed' = completed + 1
                      /\ pc' = "restart_data_plane"
                      /\ UNCHANGED << err, busy, sleeps >>
    /\ UNCHANGED << loop_vars, env_vars, steps, listed_ready, acted, verified,
                    deleted, drains, uncordons, grace, cp_listed >>
    /\ UNCHANGED job

\* while is_rebuilding().await? { sleep(10 s) }: one get_volumes request of
\* is_rebuilding, the scan of its page, and what the two loops do then
is_rebuilding ==
    /\ pc = "is_rebuilding"
    /\ LET t == starting_token[1]
           vols == get_volumes(t)
           found == page_rebuilding(vols.entries)
       IN  /\ requested' = IF t = 0 THEN << 0 >> ELSE Append(requested, t)
           /\ \/ /\ fail("ListStorageVolumes")
                 /\ last_poll' = [last_poll EXCEPT !["is_rebuilding"] = "error"]
                 /\ UNCHANGED << starting_token, busy, sleeps, completed >>
              \/ IF ~found /\ more_pages(vols.next_token)
                 THEN \* the next turn of is_rebuilding's loop
                      /\ starting_token' = vols.next_token
                      /\ last_poll' = [last_poll EXCEPT !["is_rebuilding"] = "none"]
                      /\ UNCHANGED << pc, err, busy, sleeps, completed >>
                 ELSE IF keep_waiting(found)
                 THEN \* is_rebuilding returned: sleep, and call it again
                      /\ busy < MaxPolls
                      /\ busy' = busy + 1
                      /\ sleeps' = sleeps + 1
                      /\ starting_token' = Some(0)
                      /\ last_poll' = [last_poll EXCEPT !["is_rebuilding"] =
                                          IF found THEN "true" ELSE "false"]
                      /\ UNCHANGED << pc, err, completed >>
                 ELSE \* is_rebuilding returned: wait_for_rebuild returns Ok(())
                      /\ last_poll' = [last_poll EXCEPT !["is_rebuilding"] =
                                          IF found THEN "true" ELSE "false"]
                      /\ starting_token' = NoValue
                      /\ completed' = completed + 1
                      /\ pc' = "restart_data_plane"
                      /\ UNCHANGED << err, busy, sleeps >>
    /\ UNCHANGED << loop_vars, env_vars, steps, listed_ready, acted, verified,
                    deleted, drains, uncordons, grace, cp_listed >>
    /\ UNCHANGED job

\* pods.delete(pod_name)
restart_data_plane ==
    /\ pc = "restart_data_plane"
    /\ steps' = begin("restart_data_plane")
    /\ acted' = acted \cup {idx}
    /\ \/ /\ fail("PodDeleteError")
          /\ UNCHANGED << deleted, completed >>
       \/ /\ deleted' = Append(deleted, idx)
          /\ completed' = completed + 1
          /\ pc' = "uncordon_node"
          /\ err' = err
    /\ busy' = 0
    /\ sleeps' = 0
    /\ UNCHANGED << loop_vars, starting_token, env_vars, last_poll, listed_ready,
                    requested, verified, drains, uncordons, grace, cp_listed >>
    /\ UNCHANGED job

\* the readiness wait inside the if block too
skip_uncordon_and_wait ==
    /\ pc = "uncordon_node"
    /\ cordoned
    /\ pc' = "is_control_plane_running"
    /\ UNCHANGED << err, loop_vars, starting_token, env_vars, steps, completed,
                    last_poll, listed_ready, requested, busy, sleeps, acted,
                    verified, deleted, drains, uncordons, grace, cp_listed >>
    /\ UNCHANGED job

\* if !is_node_cordoned { ... }: the node was cordoned, no uncordon
skip_uncordon ==
    /\ pc = "uncordon_node"
    /\ cordoned
    /\ pc' = "verify_data_plane_pod_is_running"
    /\ UNCHANGED << err, loop_vars, starting_token, env_vars, steps, completed,
                    last_poll, listed_ready, requested, busy, sleeps, acted,
                    verified, deleted, drains, uncordons, grace, cp_listed >>
    /\ UNCHANGED job

\* the uncordon is requested whatever is_node_cordoned returned
uncordon_node_unconditionally ==
    /\ pc = "uncordon_node"
    /\ steps' = begin("uncordon_node")
    /\ uncordons' = uncordons + 1
    /\ acted' = acted \cup {idx}
    /\ \/ /\ fail("StorageNodeUncordon")
          /\ UNCHANGED << upgrade_label, cordondrainstate, completed >>
       \/ /\ upgrade_label' = [upgrade_label EXCEPT ![node_name] = FALSE]
          /\ \E left \in {None, "cordonedstate", cordondrainstate[node_name]} :
                cordondrainstate' = [cordondrainstate EXCEPT ![node_name] = left]
          /\ completed' = completed + 1
          /\ pc' = "verify_data_plane_pod_is_running"
          /\ err' = err
    /\ UNCHANGED << loop_vars, starting_token, volumes, last_poll,
                    listed_ready, requested, busy, sleeps, verified, deleted, drains,
                    grace, cp_listed >>
    /\ UNCHANGED job

\* if !is_node_cordoned { uncordon_node(node_name).await? }:
\* delete_node_cordon(node_name, DRAIN_FOR_UPGRADE)
uncordon_node ==
    /\ pc = "uncordon_node"
    /\ ~cordoned
    /\ steps' = begin("uncordon_node")
    /\ uncordons' = uncordons + 1
    /\ acted' = acted \cup {idx}
    /\ \/ /\ fail("StorageNodeUncordon")
          /\ UNCHANGED << upgrade_label, cordondrainstate, completed >>
       \/ /\ upgrade_label' = [upgrade_label EXCEPT ![node_name] = FALSE]
          /\ \E left \in {None, "cordonedstate", cordondrainstate[node_name]} :
                cordondrainstate' = [cordondrainstate EXCEPT ![node_name] = left]
          /\ completed' = completed + 1
          /\ pc' = "verify_data_plane_pod_is_running"
          /\ err' = err
    /\ UNCHANGED << loop_vars, starting_token, volumes, last_poll,
                    listed_ready, requested, busy, sleeps, verified, deleted, drains,
                    grace, cp_listed >>
    /\ UNCHANGED job

\* while is_data_plane_pod_running(node_name, namespace).await? { sleep(10 s) }
verify_data_plane_pod_is_running ==
    /\ pc = "verify_data_plane_pod_is_running"
    /\ steps' = begin("verify_data_plane_pod_is_running")
    /\ \/ /\ fail("ListPodsWithLabel")
          /\ listed_ready' = FALSE
          /\ last_poll' = [last_poll EXCEPT !["is_data_plane_pod_running"] = "error"]
          /\ UNCHANGED completed
       \/ \E poll \in data_plane_polls[node_name] :
            LET r == poll.result
            IN  /\ listed_ready' = poll.ready
                /\ IF r.err # None
                   THEN /\ fail(r.err)
                        /\ last_poll' = [last_poll EXCEPT
                                           !["is_data_plane_pod_running"] = "error"]
                        /\ UNCHANGED completed
                   ELSE IF keep_waiting(r.val)
                   THEN /\ last_poll' = [last_poll EXCEPT
                                           !["is_data_plane_pod_running"] =
                                               IF r.val THEN "true" ELSE "false"]
                        /\ UNCHANGED << pc, err, completed >>
                   ELSE /\ last_poll' = [last_poll EXCEPT
                                           !["is_data_plane_pod_running"] =
                                               IF r.val THEN "true" ELSE "false"]
                        /\ completed' = completed + 1
                        /\ pc' = "is_control_plane_running"
                        /\ UNCHANGED err
    /\ UNCHANGED << loop_vars, starting_token, env_vars, requested, busy, sleeps,
                    acted, verified, deleted, drains, uncordons, grace, cp_listed >>
    /\ UNCHANGED job

\* is_control_plane_running: one pods.list(label) and all_pods_are_ready on it
is_control_plane_running ==
    /\ pc = "is_control_plane_running"
    /\ steps' = begin("is_control_plane_running")
    /\ LET label == control_plane_labels[Len(cp_listed) + 1]
       IN  \/ /\ fail("ListPodsWithLabel")
              /\ cp_listed' = Append(cp_listed, [label |-> label, ready |-> "error"])
              /\ UNCHANGED << completed, verified >>
           \/ \E ready \in control_plane_polls :
                /\ cp_listed' = Append(cp_listed,
                       [label |-> label, ready |-> IF ready THEN "true" ELSE "false"])
                /\ IF ~ready
                   THEN /\ fail("ValidatingPodRunningStatus")
                        /\ UNCHANGED << completed, verified >>
                   ELSE IF Len(cp_listed) + 1 < Len(control_plane_labels)
                   THEN UNCHANGED << pc, err, completed, verified >>
                   ELSE /\ completed' = completed + 1
                        /\ verified' = verified \cup {idx}
                        /\ pc' = "for_pod"
                        /\ err' = err
    /\ UNCHANGED << loop_vars, starting_token, env_vars, last_poll, listed_ready,
                    requested, busy, sleeps, acted, deleted, drains, uncordons, grace >>
    /\ UNCHANGED job

(***************************************************************************)
(* The cluster around the run: other operators cordon, drain and uncordon  *)
(* storage nodes, drains complete, rebuilds start and finish.              *)
(***************************************************************************)
running == pc \notin {"done", "failed"}

orchestrator_vars ==
    << pc, err, pod_list, idx, cordoned, snapshot, starting_token, steps, completed,
       last_poll, listed_ready, requested, busy, sleeps, acted, verified, deleted, drains,
       uncordons, grace, cp_listed, job >>

\* somebody cordons a node
env_cordon ==
    /\ running
    /\ \E n \in Nodes :
         /\ cordondrainstate[n] = None
         /\ cordondrainstate' = [cordondrainstate EXCEPT ![n] = "cordonedstate"]
    /\ UNCHANGED << upgrade_label, volumes, orchestrator_vars >>

\* somebody drains a node
env_drain ==
    /\ running
    /\ \E n \in Nodes :
         /\ ~has_drain_label(n)
         /\ cordondrainstate' = [cordondrainstate EXCEPT ![n] = "drainingstate"]
    /\ UNCHANGED << upgrade_label, volumes, orchestrator_vars >>

\* somebody removes the labels they applied: all of them, or all but a cordon label
env_uncordon ==
    /\ running
    /\ \E n \in Nodes :
         /\ ~upgrade_label[n]
         /\ \E left \in {None, "cordonedstate"} :
              /\ left # cordondrainstate[n]
              /\ cordondrainstate[n] # None
              /\ cordondrainstate' = [cordondrainstate EXCEPT ![n] = left]
    /\ UNCHANGED << upgrade_label, volumes, orchestrator_vars >>

\* a drain completes
env_drain_complete ==
    /\ running
    /\ \E n \in Nodes :
         /\ cordondrainstate[n] = "drainingstate"
         /\ cordondrainstate' = [cordondrainstate EXCEPT ![n] = "drainedstate"]
    /\ UNCHANGED << upgrade_label, volumes, orchestrator_vars >>

env_rebuild_start ==
    /\ running
    /\ \E p \in 1 .. Len(volumes) : \E i \in 1 .. Len(volumes[p]) :
         /\ volumes[p][i] = Some(<< FALSE, FALSE >>)
         /\ volumes' = [volumes EXCEPT ![p][i] = Some(<< FALSE, TRUE >>)]
    /\ UNCHANGED << node_vars, orchestrator_vars >>

env_rebuild_finish ==
    /\ running
    /\ \E p \in 1 .. Len(volumes) : \E i \in 1 .. Len(volumes[p]) :
         /\ volumes[p][i] = Some(<< FALSE, TRUE >>)
         /\ volumes' = [volumes EXCEPT ![p][i] = Some(<< FALSE, FALSE >>)]
    /\ UNCHANGED << node_vars, orchestrator_vars >>

(***************************************************************************)
(* The run of upgrade_data_plane in a cluster that changes on its own.     *)
(***************************************************************************)
\* the inventory of the runs, in two pages: a volume that is not published (no
\* target, so nothing to rebuild) and a published one with two children
initial_volumes ==
    << << NoValue >>, << Some(<< FALSE, FALSE >>) >> >>

orchestrator_init ==
    /\ pc = "list"
    /\ err = None
    /\ pod_list = << >>
    /\ idx = 0
    /\ cordoned = FALSE
    /\ snapshot = None
    /\ starting_token = NoValue
    /\ steps = << >>
    /\ completed = 0
    /\ last_poll = NoPolls
    /\ listed_ready = FALSE
    /\ requested = << >>
    /\ busy = 0
    /\ sleeps = 0
    /\ acted = {}
    /\ verified = {}
    /\ deleted = << >>
    /\ drains = << >>
    /\ uncordons = 0
    /\ grace = 0
    /\ cp_listed = << >>

Init ==
    /\ orchestrator_init
    /\ job = started_job
    /\ cordondrainstate \in [Nodes -> CordonDrainStates]
    /\ upgrade_label = [n \in Nodes |-> FALSE]
    /\ volumes = initial_volumes

upgrade_data_plane ==
    \/ list_pods
    \/ for_pod
    \/ call_is_node_cordoned
    \/ issue_node_drain
    \/ wait_node_drain
    \/ wait_for_rebuild
    \/ is_rebuilding
    \/ restart_data_plane
    \/ skip_uncordon
    \/ uncordon_node
    \/ verify_data_plane_pod_is_running
    \/ is_control_plane_running

environment ==
    \/ env_cordon
    \/ env_drain
    \/ env_uncordon
    \/ env_drain_complete
    \/ env_rebuild_start
    \/ env_rebuild_finish

Next == upgrade_data_plane \/ environment

Spec == Init /\ [][Next]_vars

(***************************************************************************)
(* is_rebuilding on an inventory that does not change: wait_for_rebuild    *)
(* alone, from the state wait_node_drain left, for every inventory.        *)
(***************************************************************************)
rebuild_init ==
    /\ pc = "wait_for_rebuild"
    /\ err = None
    /\ pod_list = << [has_spec |-> TRUE, node_name |-> 1,
                      conditions |-> Some(<< Ready("True") >>)] >>
    /\ idx = 1
    /\ cordoned = FALSE
    /\ snapshot = None
    /\ starting_token = NoValue
    /\ steps = << "is_node_cordoned", "issue_node_drain", "wait_node_drain" >>
    /\ completed = 3
    /\ last_poll = [NoPolls EXCEPT !["is_draining"] = "false"]
    /\ listed_ready = FALSE
    /\ requested = << >>
    /\ busy = 0
    /\ sleeps = 0
    /\ acted = {1}
    /\ verified = {}
    /\ deleted = << >>
    /\ drains = << 1 >>
    /\ uncordons = 0
    /\ grace = 0
    /\ cp_listed = << >>
    /\ cordondrainstate = [n \in Nodes |-> IF n = 1 THEN "drainedstate" ELSE None]
    /\ upgrade_label = [n \in Nodes |-> n = 1]
    /\ volumes \in Inventories
    /\ job = started_job

rebuild_next == wait_for_rebuild \/ is_rebuilding

SpecRebuild == rebuild_init /\ [][rebuild_next]_vars

(***************************************************************************)
(* all_pods_are_ready on every listing, as is_control_plane_running uses   *)
(* it on the listing of one label.                                         *)
(***************************************************************************)
all_pods_are_ready_init ==
    /\ pc = "all_pods_are_ready"
    /\ err = None
    /\ pod_list \in PodLists
    /\ idx = 0
    /\ cordoned = FALSE
    /\ snapshot = None
    /\ starting_token = NoValue
    /\ steps = << >>
    /\ completed = 0
    /\ last_poll = NoPolls
    /\ listed_ready = FALSE
    /\ requested = << >>
    /\ busy = 0
    /\ sleeps = 0
    /\ acted = {}
    /\ verified = {}
    /\ deleted = << >>
    /\ drains = << >>
    /\ uncordons = 0
    /\ grace = 0
    /\ cp_listed = << >>
    /\ cordondrainstate = [n \in Nodes |-> None]
    /\ upgrade_label = [n \in Nodes |-> FALSE]
    /\ volumes = initial_volumes
    /\ job = started_job

\* let result = all_pods_are_ready(pod_list);
\* if !result.0 { return Err(ValidatingPodRunningStatus { .. }) }
ensure_all_pods_are_ready ==
    /\ pc = "all_pods_are_ready"
    /\ IF all_pods_are_ready(pod_list)
       THEN pc' = "done" /\ err' = err
       ELSE fail("ValidatingPodRunningStatus")
    /\ UNCHANGED << loop_vars, starting_token, env_vars, steps, completed, last_poll,
                    listed_ready, requested, busy, sleeps, acted, verified, deleted, drains,
                    uncordons, grace, cp_listed >>
    /\ UNCHANGED job

SpecPodsReady == all_pods_are_ready_init /\ [][ensure_all_pods_are_ready]_vars

(***************************************************************************)
(* is_data_plane_pod_running on every listing and node, as the readiness   *)
(* wait evaluates it once: pod_list is its initial_io_engine_pod_list and  *)
(* the node is the one the iteration drained.                              *)
(***************************************************************************)
is_data_plane_pod_running_init ==
    /\ pc = "is_data_plane_pod_running"
    /\ err = None
    /\ pod_list \in PodLists
    /\ idx = 0
    /\ cordoned = FALSE
    /\ snapshot = None
    /\ starting_token = NoValue
    /\ steps = << >>
    /\ completed = 0
    /\ last_poll = NoPolls
    /\ listed_ready = FALSE
    /\ requested = << >>
    /\ busy = 0
    /\ sleeps = 0
    /\ acted = {}
    /\ verified = {}
    /\ deleted = << >>
    /\ \E node \in Nodes : drains = << node >>
    /\ uncordons = 0
    /\ grace = 0
    /\ cp_listed = << >>
    /\ cordondrainstate = [n \in Nodes |-> None]
    /\ upgrade_label = [n \in Nodes |-> FALSE]
    /\ volumes = initial_volumes
    /\ job = started_job

\* is_data_plane_pod_running(node_name, namespace).await?  for the listing pod_list
call_is_data_plane_pod_running ==
    /\ pc = "is_data_plane_pod_running"
    /\ LET r == is_data_plane_pod_running(drains[1], pod_list)
       IN  /\ listed_ready' = ready_pod_listed(drains[1], pod_list)
           /\ IF r.err # None
              THEN /\ fail(r.err)
                   /\ last_poll' = [last_poll EXCEPT
                                      !["is_data_plane_pod_running"] = "error"]
              ELSE /\ pc' = "done"
                   /\ err' = err
                   /\ last_poll' = [last_poll EXCEPT
                                      !["is_data_plane_pod_running"] =
                                          IF r.val THEN "true" ELSE "false"]
    /\ UNCHANGED << loop_vars, starting_token, env_vars, steps, completed, requested,
                    busy, sleeps, acted, verified, deleted, drains, uncordons, grace,
                    cp_listed >>
    /\ UNCHANGED job

SpecPodRunning == is_data_plane_pod_running_init /\ [][call_is_data_plane_pod_running]_vars

(***************************************************************************)
(* The happy path: one io-engine pod on a node that is not cordoned, no    *)
(* request fails, no rebuild, every drain completes, the control plane is  *)
(* ready, and the replacement pod, once it is running, stays running.      *)
(***************************************************************************)
happy_init ==
    /\ orchestrator_init
    /\ job = started_job
    /\ cordondrainstate \in [Nodes -> CordonDrainStates \ {"cordonedstate"}]
    /\ upgrade_label = [n \in Nodes |-> FALSE]
    /\ volumes = initial_volumes

happy_next ==
    /\ upgrade_data_plane \/ env_drain_complete
    /\ pc' # "failed"
    /\ Len(pod_list') = 1
    /\ last_poll["is_data_plane_pod_running"] = "true" =>
           last_poll'["is_data_plane_pod_running"] = "true"

\* the job runs on, and a drain in progress completes
SpecHappy == happy_init /\ [][happy_next]_vars /\ WF_vars(happy_next)

(***************************************************************************)
(* main.rs: the process from its first statement to its exit, with the     *)
(* data plane upgrade of upgrade_data_plane inside it.                     *)
(***************************************************************************)
run_vars ==
    << pod_list, idx, cordoned, snapshot, starting_token, steps, completed, last_poll,
       listed_ready, requested, busy, sleeps, acted, verified, deleted, drains,
       uncordons, grace, cp_listed >>

\* a startup step returned r: on Ok main goes on to `next`
returns(r, next) ==
    IF r.err = "panic" THEN pc' = "panicked" /\ err' = err
    ELSE IF r.err # None THEN fail(r.err)
    ELSE pc' = next /\ err' = err

ran(step) == Append(job.trace, step)

\* must(init_logging())
init_logging ==
    /\ pc = "init_logging"
    /\ job' = [job EXCEPT !.trace = ran("init_logging")]
    /\ returns(Ok(TRUE), "parse_cli_args")
    /\ UNCHANGED << run_vars, env_vars >>

\* parse_cli_args: CliArgs::try_parse()
try_parse ==
    /\ pc = "parse_cli_args"
    /\ \/ /\ job' = [job EXCEPT !.trace = ran("CliArgs::try_parse")]
          /\ returns(Err("CliArgsParse"), "get_or_init_clients")
       \/ \E restart \in BOOLEAN, umbrella_dir \in ChartDirs, core_dir \in ChartDirs :
             /\ job' = [job EXCEPT !.trace = ran("CliArgs::try_parse"),
                                   !.restart = restart,
                                   !.umbrella_dir = umbrella_dir,
                                   !.core_dir = core_dir]
             /\ returns(Ok(TRUE), "get_or_init_clients")
    /\ UNCHANGED << run_vars, env_vars >>

\* parse_cli_args: get_or_init_rest_client(..).await?; get_or_init_kube_client().await?
get_or_init_clients ==
    /\ pc = "get_or_init_clients"
    /\ job' = [job EXCEPT !.trace = ran("get_or_init_clients")]
    /\ \E r \in {Err("RestUrlParse"), Err("RestClientConfiguration"),
                  Err("K8sClientGeneration"), Ok(TRUE)} :
          returns(r, "validate_helmv3_in_path")
    /\ UNCHANGED << run_vars, env_vars >>

\* parse_cli_args: validate_helmv3_in_path()?
call_validate_helmv3_in_path ==
    /\ pc = "validate_helmv3_in_path"
    /\ \E version \in HelmVersions :
          /\ job' = [job EXCEPT !.trace = ran("validate_helmv3_in_path"),
                                !.helm_version = version]
          /\ returns(validate_helmv3_in_path(version), "validate_helm_release")
    /\ UNCHANGED << run_vars, env_vars >>

\* parse_cli_args: validate_helm_release(opts.release_name(), opts.namespace())?
call_validate_helm_release ==
    /\ pc = "validate_helm_release"
    /\ \E listed \in ReleaseLists :
          /\ job' = [job EXCEPT !.trace = ran("validate_helm_release"),
                                !.short_list = listed]
          /\ returns(validate_helm_release(listed), "validate_helm_chart_dirs")
    /\ UNCHANGED << run_vars, env_vars >>

\* parse_cli_args: validate_helm_chart_dirs(..)?; Ok(opts)
call_validate_helm_chart_dirs ==
    /\ pc = "validate_helm_chart_dirs"
    /\ job' = [job EXCEPT !.trace = ran("validate_helm_chart_dirs")]
    /\ returns(validate_helm_chart_dirs(job.umbrella_dir, job.core_dir),
               "generate_event_recorder_for_k8s_job")
    /\ UNCHANGED << run_vars, env_vars >>

\* must(generate_event_recorder_for_k8s_job(&opts).await)
call_generate_event_recorder_for_k8s_job ==
    /\ pc = "generate_event_recorder_for_k8s_job"
    /\ \/ /\ job' = [job EXCEPT !.trace = ran("generate_event_recorder_for_k8s_job")]
          /\ returns(Err("GetPod"), "HelmUpgrade::build")
       \/ \E owner_references \in OwnerReferences :
             /\ job' = [job EXCEPT !.trace = ran("generate_event_recorder_for_k8s_job"),
                                   !.owner_references = Some(owner_references)]
             /\ returns(generate_event_recorder_for_k8s_job(owner_references),
                        "HelmUpgrade::build")
    /\ UNCHANGED << run_vars, env_vars >>

\* upgrade: HelmUpgrade::default(opts).build()?
helm_upgrade_build ==
    /\ pc = "HelmUpgrade::build"
    /\ \E listed \in ReleaseLists, chart \in Charts :
          LET info == release_info(listed, chart)
              r == IF info.err # None THEN info ELSE build(info.val)
          IN  /\ job' = [job EXCEPT !.trace = ran("HelmUpgrade::build"),
                                    !.release = IF listed = "exact" THEN chart
                                                ELSE "missing",
                                    !.chart_variant = IF r.err = None THEN r.val ELSE @]
              /\ returns(r, "HelmUpgrade::run")
    /\ UNCHANGED << run_vars, env_vars >>

\* upgrade: helm_upgrade.run(..)? up to the call of self.client.upgrade
helm_upgrade_run ==
    /\ pc = "HelmUpgrade::run"
    /\ job' = [job EXCEPT !.trace = ran("HelmUpgrade::run")]
    /\ LET dir == chart_dir(job.chart_variant, job.umbrella_dir, job.core_dir)
       IN  IF dir.err # None THEN returns(dir, "HelmClient::upgrade")
           ELSE \E r \in {Err("OpeningFile"), Err("YamlParseFromFile"),
                           Err("YamlStructure"), Ok(TRUE)} :
                   returns(r, "HelmClient::upgrade")
    /\ UNCHANGED << run_vars, env_vars >>

\* HelmClient::upgrade: the helm upgrade subprocess; then, in upgrade,
\* if opts.restart_data_plane() { upgrade_data_plane(..).await? }  Ok(())
helm_client_upgrade ==
    /\ pc = "HelmClient::upgrade"
    /\ \E outcome \in HelmUpgradeOutcomes :
          /\ job' = [job EXCEPT !.trace = ran("HelmClient::upgrade"),
                                !.helm_upgrade = outcome]
          /\ returns(client_upgrade(outcome), IF job.restart THEN "list" ELSE "done")
    /\ UNCHANGED << run_vars, env_vars >>

\* the error is logged and the process goes on as if the step had returned
must_logs_only ==
    /\ pc = "failed"
    /\ job.exit = NoValue
    /\ job' = [job EXCEPT !.exit = Some(exit_status(0))]
    /\ UNCHANGED << pc, err, run_vars, env_vars >>

\* must on an Err: tracing::error!(..); std::process::exit(-1)
must ==
    /\ pc = "failed"
    /\ job.exit = NoValue
    /\ job' = [job EXCEPT !.exit = Some(exit_status(-1))]
    /\ UNCHANGED << pc, err, run_vars, env_vars >>

\* main returns
main_returns ==
    /\ pc = "done"
    /\ job.exit = NoValue
    /\ job' = [job EXCEPT !.exit = Some(exit_status(0))]
    /\ UNCHANGED << pc, err, run_vars, env_vars >>

\* a panic unwinds out of main: the runtime exits with status 101
panicked ==
    /\ pc = "panicked"
    /\ job.exit = NoValue
    /\ job' = [job EXCEPT !.exit = Some(exit_status(101))]
    /\ UNCHANGED << pc, err, run_vars, env_vars >>

parse_cli_args ==
    \/ try_parse
    \/ get_or_init_clients
    \/ call_validate_helmv3_in_path
    \/ call_validate_helm_release
    \/ call_validate_helm_chart_dirs

upgrade ==
    \/ helm_upgrade_build
    \/ helm_upgrade_run
    \/ helm_client_upgrade
    \/ upgrade_data_plane

main ==
    \/ init_logging
    \/ parse_cli_args
    \/ call_generate_event_recorder_for_k8s_job
    \/ upgrade
    \/ must
    \/ main_returns
    \/ panicked

job_init ==
    /\ pc = "init_logging"
    /\ err = None
    /\ pod_list = << >>
    /\ idx = 0
    /\ cordoned = FALSE
    /\ snapshot = None
    /\ starting_token = NoValue
    /\ steps = << >>
    /\ completed = 0
    /\ last_poll = NoPolls
    /\ listed_ready = FALSE
    /\ requested = << >>
    /\ busy = 0
    /\ sleeps = 0
    /\ acted = {}
    /\ verified = {}
    /\ deleted = << >>
    /\ drains = << >>
    /\ uncordons = 0
    /\ grace = 0
    /\ cp_listed = << >>
    /\ \E state \in {None, "cordonedstate"} :
          cordondrainstate = [n \in Nodes |-> IF n = 1 THEN state ELSE None]
    /\ upgrade_label = [n \in Nodes |-> FALSE]
    /\ volumes = initial_volumes
    /\ job = new_job

\* the process, and the drains it started completing
job_next == main \/ env_drain_complete

SpecJob == job_init /\ [][job_next]_vars

TypeOK ==
    /\ pc \in {"list", "for_pod", "is_node_cordoned", "issue_node_drain",
               "wait_node_drain", "wait_for_rebuild", "is_rebuilding",
               "restart_data_plane", "uncordon_node",
               "verify_data_plane_pod_is_running", "is_control_plane_running",
               "done", "failed"}
    /\ idx \in 0 .. MaxPods
    /\ busy \in 0 .. MaxPolls
    /\ sleeps \in 0 .. MaxPolls
    /\ grace \in {0, GracePeriod}
    /\ Len(drains) <= MaxPods
    /\ \A n \in Nodes : upgrade_label[n] => has_drain_label(n)

(***************************************************************************)
(* Properties.                                                             *)
(***************************************************************************)
IsPrefix(s, t) == Len(s) <= Len(t) /\ \A i \in 1 .. Len(s) : s[i] = t[i]

no_node_draining == \A n \in Nodes : cordondrainstate[n] # "drainingstate"

\* a volume's target has a child with a rebuild_progress
marker(target) == target # NoValue /\ \E c \in 1 .. Len(target[1]) : target[1][c]

no_marker_on(page) == \A i \in 1 .. Len(page) : ~marker(page[i])

no_rebuild_marker == \A p \in 1 .. Len(volumes) : no_marker_on(volumes[p])

deleted_here == \E i \in 1 .. Len(deleted) : deleted[i] = idx

\* C1 as stated: whenever the delete of a data-plane pod is issued, no storage
\* node reports Draining and no volume has a child with a rebuild marker.
C1_quiescent_at_delete ==
    [][restart_data_plane => (no_node_draining /\ no_rebuild_marker)]_vars

\* C1, amended: the delete is issued only after the last is_draining and the last
\* is_rebuilding of the iteration returned false; wait_node_drain returned on a
\* get_nodes that showed no Draining node, and is_rebuilding returned false having
\* requested every page and found no rebuild marker on each page as it read it.
C1_delete_after_quiet_polls ==
    [][ /\ restart_data_plane =>
              /\ last_poll["is_draining"] = "false"
              /\ last_poll["is_rebuilding"] = "false"
        /\ (wait_node_drain /\ pc' = "wait_for_rebuild") => no_node_draining
        /\ (is_rebuilding /\ last_poll'["is_rebuilding"] \in {"none", "false"}) =>
              no_marker_on(volumes[starting_token[1] + 1])
        /\ (is_rebuilding /\ pc' = "restart_data_plane") =>
              requested' = [k \in 1 .. Len(volumes) |-> k - 1]
      ]_vars

\* a delete was issued after both waits returned on a false evaluation
C1_witness ==
    /\ pc = "uncordon_node"
    /\ deleted_here
    /\ last_poll["is_draining"] = "false"
    /\ last_poll["is_rebuilding"] = "false"
    /\ Len(requested) = Len(volumes)

\* C2: after the delete, verify_data_plane_pod_is_running returns Ok only on a
\* poll that listed a pod on the node with Ready = True, so
\* is_control_plane_running never begins without one.
C2_ok_only_when_ready ==
    pc = "is_control_plane_running" => listed_ready

all_steps ==
    << "is_node_cordoned", "issue_node_drain", "wait_node_drain", "wait_for_rebuild",
       "restart_data_plane", "uncordon_node", "verify_data_plane_pod_is_running",
       "is_control_plane_running" >>

steps_without_uncordon ==
    << "is_node_cordoned", "issue_node_drain", "wait_node_drain", "wait_for_rebuild",
       "restart_data_plane", "verify_data_plane_pod_is_running",
       "is_control_plane_running" >>

\* C3: the steps of an iteration begin in the order cordon-state read, drain, drain
\* wait, rebuild wait, delete, uncordon, readiness wait, control-plane check; a
\* step begins only after every earlier one returned Ok; an iteration that passed
\* the control-plane check has taken every step, the uncordon at most excepted.
C3_steps_in_order ==
    /\ IsPrefix(steps, all_steps) \/ IsPrefix(steps, steps_without_uncordon)
    /\ completed <= Len(steps)
    /\ Len(steps) <= completed + 1
    /\ idx \in verified => steps \in {all_steps, steps_without_uncordon}

\* a second iteration ran to its end, uncordon included
C3_witness ==
    pc = "done" /\ idx = 2 /\ steps = all_steps /\ completed = Len(all_steps)

\* C4: a request for the pod at position k of the listing is issued only when
\* every earlier position passed is_control_plane_running; after a
\* ValidatingPodRunningStatus the run has ended and no later position was touched.
C4_one_at_a_time ==
    /\ \A k \in acted : \A j \in 1 .. (k - 1) : j \in verified
    /\ acted \subseteq 1 .. idx
    /\ err = "ValidatingPodRunningStatus" => (pc = "failed" /\ idx \notin verified)

\* the second pod is being upgraded after the first passed the health check
C4_witness ==
    2 \in acted /\ 1 \in verified /\ pc = "restart_data_plane"

\* C5: no uncordon request is issued in an iteration whose is_node_cordoned read
\* the node as Cordoned.
C5_no_uncordon_of_cordoned ==
    snapshot = "cordonedstate" =>
        (uncordons = 0 /\ \A i \in 1 .. Len(steps) : steps[i] # "uncordon_node")

\* a node read as Cordoned had its pod deleted and the iteration went on
C5_witness ==
    /\ snapshot = "cordonedstate"
    /\ deleted_here
    /\ pc = "verify_data_plane_pod_is_running"

\* C6: once the delete of the iteration succeeded and the node was not read as
\* Cordoned, exactly one uncordon request is issued, after the delete and before
\* the readiness wait; none is issued before the delete, and never a second.
C6_uncordon_once ==
    /\ uncordons <= 1
    /\ uncordons = 1 => deleted_here
    /\ pc = "uncordon_node" => (uncordons = 0 /\ deleted_here)
    /\ (deleted_here /\ snapshot # "cordonedstate" /\ pc # "uncordon_node") =>
          /\ uncordons = 1
          /\ Len(steps) >= 6
          /\ steps[5] = "restart_data_plane"
          /\ steps[6] = "uncordon_node"
          /\ Len(steps) >= 7 => steps[7] = "verify_data_plane_pod_is_running"

\* a node read as Draining is uncordoned after the delete
C6_witness ==
    /\ snapshot = "drainingstate"
    /\ uncordons = 1
    /\ pc = "verify_data_plane_pod_is_running"

\* C7: on an inventory that does not change, is_rebuilding returns true only if a
\* volume of some page has a target with a child that has a rebuild marker, and
\* false only if none has and every page, the last (without next_token) included,
\* was requested.
C7_rebuilding_iff_marker ==
    /\ last_poll["is_rebuilding"] = "true" => ~no_rebuild_marker
    /\ last_poll["is_rebuilding"] = "false" =>
          /\ no_rebuild_marker
          /\ requested = [k \in 1 .. Len(volumes) |-> k - 1]

\* the only marker is on the second page, and is_rebuilding found it
C7_witness ==
    /\ last_poll["is_rebuilding"] = "true"
    /\ requested = << 0, 1 >>
    /\ no_marker_on(volumes[1])
    /\ volumes[1] # << >>

\* C8: wait_node_drain returns Ok only on a step that evaluated is_draining to
\* false, wait_for_rebuild only on one that evaluated is_rebuilding to false; while
\* the last evaluation is true the wait is left only by another evaluation.
C8_return_on_false ==
    [][ /\ (pc = "wait_node_drain" /\ pc' = "wait_for_rebuild") =>
              /\ wait_node_drain
              /\ last_poll'["is_draining"] = "false"
              /\ no_node_draining
        /\ (pc = "is_rebuilding" /\ pc' = "restart_data_plane") =>
              /\ is_rebuilding
              /\ last_poll'["is_rebuilding"] = "false"
              /\ no_marker_on(volumes[starting_token[1] + 1])
        /\ (pc = "wait_node_drain" /\ pc' # pc) => pc' \in {"wait_for_rebuild", "failed"}
        /\ (pc = "is_rebuilding" /\ pc' # pc) => pc' \in {"restart_data_plane", "failed"}
      ]_vars

\* wait_node_drain returned after an evaluation that was true and one that was false
C8_witness ==
    pc = "wait_for_rebuild" /\ busy >= 1 /\ last_poll["is_draining"] = "false"

\* C9: when wait_node_drain (wait_for_rebuild) returns, it has slept 10 s exactly
\* once for every evaluation of its predicate that returned true: twice for
\* true, true, false and three times for three Draining polls.
C9_one_sleep_per_busy_poll ==
    /\ pc \in {"wait_node_drain", "wait_for_rebuild"} => sleeps = busy
    /\ pc \in {"is_rebuilding", "restart_data_plane"} => sleeps = busy

\* is_draining was true three times, then false: three sleeps
C9_witness ==
    /\ pc = "wait_for_rebuild"
    /\ last_poll["is_draining"] = "false"
    /\ busy = 3
    /\ sleeps = 3

\* C10: is_control_plane_running lists the core agent, then the REST API, then
\* etcd; a label is listed only when every label before it had all its pods ready,
\* and a listing with a pod that is not ready ends the run with
\* ValidatingPodRunningStatus.
C10_fail_fast ==
    /\ IsPrefix([i \in 1 .. Len(cp_listed) |-> cp_listed[i].label],
                << "AGENT_CORE_LABEL", "API_REST_LABEL", "ETCD_LABEL" >>)
    /\ \A i \in 1 .. (Len(cp_listed) - 1) : cp_listed[i].ready = "true"
    /\ (cp_listed # << >> /\ cp_listed[Len(cp_listed)].ready = "false") =>
          (pc = "failed" /\ err = "ValidatingPodRunningStatus")
    /\ err = "ValidatingPodRunningStatus" =>
          (cp_listed # << >> /\ cp_listed[Len(cp_listed)].ready = "false")

\* the core agent has a pod that is not ready: the other two are never listed
C10_witness ==
    /\ err = "ValidatingPodRunningStatus"
    /\ Len(cp_listed) = 1
    /\ cp_listed[1].label = "AGENT_CORE_LABEL"

\* a pod has a condition of type Ready with status True among its conditions
has_ready_condition(pod) ==
    /\ pod.conditions # NoValue
    /\ \E c \in 1 .. Len(pod.conditions[1]) :
           /\ pod.conditions[1][c].type_ = "Ready"
           /\ pod.conditions[1][c].status = "True"

\* C11: all_pods_are_ready is true, and the check of the component passes, exactly
\* when every listed pod has a condition of type Ready with status True, whatever
\* other conditions it carries.
C11_ready_present_and_true ==
    pc \in {"done", "failed"} =>
        (pc = "done" <=> \A i \in 1 .. Len(pod_list) : has_ready_condition(pod_list[i]))


\* the pod has no spec, or its spec has no node_name
unassigned(pod) == ~pod.has_spec \/ pod.node_name = 0

\* C12 as stated: when a pod of the initial listing has no spec or no node name, at
\* whatever position, the run does not return Ok and no drain request is issued
\* for any node during the run.
C12_no_drain_when_unassigned ==
    (\E i \in 1 .. Len(pod_list) : unassigned(pod_list[i])) =>
        (drains = << >> /\ pc # "done")

\* C12, amended: the run never returns Ok on a listing with such a pod; when the
\* for loop reaches the pod the run fails there with EmptyPodSpec (no spec) or
\* EmptyPodNodeName (no node name) and no request is issued for that pod or a
\* later one, so there are at most as many drain requests as pods before it, and
\* none when it is first; the pods before it have been drained and restarted.
C12_abort_at_unassigned ==
    /\ pc = "done" => \A i \in 1 .. Len(pod_list) : ~unassigned(pod_list[i])
    /\ (idx >= 1 /\ unassigned(pod_list[idx])) =>
          /\ pc = "failed"
          /\ err = IF ~pod_list[idx].has_spec THEN "EmptyPodSpec" ELSE "EmptyPodNodeName"
          /\ steps = << >>
    /\ \A k \in acted : \A j \in 1 .. k : ~unassigned(pod_list[j])
    /\ \A u \in 1 .. Len(pod_list) :
          unassigned(pod_list[u]) =>
              /\ Len(drains) <= u - 1
              /\ \A i \in 1 .. Len(deleted) : deleted[i] < u

\* the second pod has no node name: the run fails there, the first node drained
C12_witness ==
    /\ pc = "failed"
    /\ err = "EmptyPodNodeName"
    /\ idx = 2
    /\ drains = << pod_list[1].node_name >>
    /\ deleted = << 1 >>


\* C13: the step that returns an Err ends the run with that Err: it is not taken
\* again, nothing the run did is undone on the way out (no drain label is removed,
\* no uncordon beyond the step's own request), and after it the orchestrator takes
\* no step at all: no later pod, no drain, delete or uncordon request.
C13_abort_on_error ==
    [][ /\ err' # None => pc' = "failed"
        /\ (pc # "failed" /\ pc' = "failed") =>
              /\ err' # None
              /\ idx' \in {idx, idx + 1}
              /\ deleted' = deleted
              /\ upgrade_label' = upgrade_label
              /\ cordondrainstate' = cordondrainstate
              /\ pc # "issue_node_drain" => drains' = drains
              /\ pc # "uncordon_node" => uncordons' <= uncordons
        /\ pc = "failed" => UNCHANGED vars
      ]_vars

\* the delete failed after the drain: the node keeps the drain label, the second
\* pod of the listing is never touched
C13_witness ==
    /\ pc = "failed"
    /\ err = "PodDeleteError"
    /\ Len(pod_list) = 2
    /\ idx = 1
    /\ acted = {1}
    /\ upgrade_label[pod_list[1].node_name]
    /\ uncordons = 0


\* C14 as stated: no storage node has two drain requests issued for it in a run,
\* whatever the initial listing.
C14_drain_once_per_node ==
    \A i, j \in 1 .. Len(drains) : i # j => drains[i] # drains[j]

\* C14, amended: drain requests are issued one per listed pod, in the order of the
\* listing and for the pod's node: the i-th request of the run is for the node of
\* the i-th pod, and there is at most one for the pod the loop is at.  A node has
\* as many requests as pods of the listing that resolve to it were reached.
C14_drain_once_per_pod ==
    /\ Len(drains) <= idx
    /\ idx >= 1 => Len(drains) >= idx - 1
    /\ \A i \in 1 .. Len(drains) : drains[i] = pod_list[i].node_name

\* two pods of the listing are on the same node: it is drained twice
C14_witness ==
    /\ Len(drains) = 2
    /\ drains[1] = drains[2]
    /\ pod_list[1].node_name = pod_list[2].node_name


\* C15: on the happy path upgrade_data_plane eventually returns Ok, having issued
\* one drain, one delete and one uncordon and listed the three control-plane labels.
C15_happy_path_returns ==
    <>( /\ pc = "done"
        /\ Len(drains) = 1
        /\ Len(deleted) = 1
        /\ uncordons = 1
        /\ Len(cp_listed) = 3 )


\* C16: an is_draining that returns Ok returns true exactly when some node of the
\* cluster reports Draining at that get_nodes, wherever the node is in the list and
\* whatever the other nodes report; otherwise it ends the run with the Err of the
\* request or of a node without spec.
C16_draining_iff_any_node ==
    [][ wait_node_drain =>
          /\ last_poll'["is_draining"] \in {"true", "false", "error"}
          /\ last_poll'["is_draining"] = "true" => ~no_node_draining
          /\ last_poll'["is_draining"] = "false" => no_node_draining
          /\ last_poll'["is_draining"] = "error" =>
                /\ pc' = "failed"
                /\ err' \in {"ListStorageVolumes", "EmptyStorageNodeSpec"}
      ]_vars

\* only the last node of the list is Draining, the first is Drained: true
C16_witness ==
    /\ pc = "wait_node_drain"
    /\ last_poll["is_draining"] = "true"
    /\ busy >= 1
    /\ cordondrainstate[1] = "drainedstate"
    /\ cordondrainstate[NumNodes] = "drainingstate"


\* C17: when a get_volumes request of is_rebuilding fails, the call returns
\* ListStorageVolumes and the run ends with it: no Ok(false) from the pages scanned
\* before, hence no delete, and the failed request was issued once, after one
\* request for each page before it.
C17_page_failure_aborts ==
    last_poll["is_rebuilding"] = "error" =>
        /\ pc = "failed"
        /\ err = "ListStorageVolumes"
        /\ ~deleted_here
        /\ requested = [k \in 1 .. Len(requested) |-> k - 1]

\* the request for the second page failed after a first page without marker
C17_witness ==
    /\ last_poll["is_rebuilding"] = "error"
    /\ requested = << 0, 1 >>
    /\ pc = "failed"


\* C18: an evaluation of is_draining, is_rebuilding or is_data_plane_pod_running
\* that returns an Err ends its wait and the run with that Err in the same step:
\* no sleep, no further evaluation, and the next step of the iteration never
\* begins (no delete after a failed drain or rebuild read, no control-plane check
\* after a failed readiness read).
C18_predicate_error_aborts ==
    [][ /\ \A p \in Polls :
              (last_poll[p] # "error" /\ last_poll'[p] = "error") =>
                  /\ pc' = "failed"
                  /\ sleeps' = sleeps
                  /\ busy' = busy
                  /\ completed' = completed
                  /\ steps' = begin(pc) \/ (pc = "is_rebuilding" /\ steps' = steps)
        /\ (wait_node_drain /\ last_poll'["is_draining"] = "error") =>
              err' \in {"ListStorageVolumes", "EmptyStorageNodeSpec"}
        /\ (is_rebuilding /\ last_poll'["is_rebuilding"] = "error") =>
              err' = "ListStorageVolumes"
        /\ (verify_data_plane_pod_is_running
              /\ last_poll'["is_data_plane_pod_running"] = "error") =>
              err' \in {"ListPodsWithLabel", "EmptyPodSpec", "EmptyPodNodeName"}
        /\ (\E p \in Polls : last_poll[p] = "error") => UNCHANGED vars
      ]_vars

\* is_draining returned an Err after two evaluations that were true
C18_witness ==
    /\ pc = "failed"
    /\ last_poll["is_draining"] = "error"
    /\ busy = 2
    /\ sleeps = 2
    /\ ~deleted_here


\* C19: the waits have no timeout: however many evaluations were true before, an
\* is_draining (is_rebuilding) that returns true is followed by a sleep and another
\* evaluation in the same wait; the pod is not deleted, the loop does not move to
\* another pod and the run does not end.
C19_no_timeout ==
    [][ /\ (wait_node_drain /\ ~no_node_draining /\ pc' # "failed") =>
              /\ pc' = "wait_node_drain"
              /\ last_poll'["is_draining"] = "true"
              /\ busy' = busy + 1
              /\ sleeps' = sleeps + 1
              /\ idx' = idx
              /\ deleted' = deleted
        /\ (is_rebuilding /\ ~no_marker_on(volumes[starting_token[1] + 1])
              /\ pc' # "failed") =>
              /\ pc' = "is_rebuilding"
              /\ last_poll'["is_rebuilding"] = "true"
              /\ starting_token' = Some(0)
              /\ busy' = busy + 1
              /\ sleeps' = sleeps + 1
              /\ idx' = idx
              /\ deleted' = deleted
      ]_vars

\* a node was Draining at every poll so far: the wait is still polling
C19_witness ==
    /\ pc = "wait_node_drain"
    /\ busy = MaxPolls
    /\ sleeps = MaxPolls
    /\ last_poll["is_draining"] = "true"
    /\ ~no_node_draining
    /\ ~deleted_here


\* C20: in an iteration is_rebuilding is evaluated only after wait_node_drain
\* returned on a false is_draining and the 60 s sleep of wait_for_rebuild is over,
\* never before or during it; after an evaluation that is true it is evaluated
\* again after one 10 s sleep, until it is false.
C20_rebuild_poll_after_grace ==
    [][ /\ is_rebuilding =>
              /\ grace = GracePeriod
              /\ last_poll["is_draining"] = "false"
              /\ steps[Len(steps)] = "wait_for_rebuild"
              /\ completed = 3
        /\ (pc # "is_rebuilding" /\ pc' = "is_rebuilding") =>
              /\ wait_for_rebuild
              /\ grace = 0
              /\ last_poll["is_rebuilding"] = "none"
              /\ requested' = << >>
        /\ grace' # grace => (wait_for_rebuild \/ for_pod)
        /\ (is_rebuilding /\ last_poll'["is_rebuilding"] = "true") =>
              (pc' = "is_rebuilding" /\ sleeps' = sleeps + 1 /\ grace' = grace)
        /\ (is_rebuilding /\ last_poll'["is_rebuilding"] = "false") =>
              (pc' = "restart_data_plane" /\ sleeps' = sleeps)
      ]_vars

\* after the grace period is_rebuilding was true once, then false
C20_witness ==
    /\ pc = "restart_data_plane"
    /\ grace = GracePeriod
    /\ busy = 1
    /\ sleeps = 1
    /\ last_poll["is_rebuilding"] = "false"


\* C23: an is_node_cordoned that returns Ok returns true exactly when the node's
\* cordondrainstate at that get_node is Cordoned: false for Draining, for Drained
\* and for a node without cordondrainstate.
C23_cordoned_iff_cordonedstate ==
    /\ completed >= 1 => (cordoned <=> snapshot = "cordonedstate")
    /\ (pc = "failed" /\ steps = << "is_node_cordoned" >>) =>
          err \in {"GetStorageNode", "EmptyStorageNodeSpec"}

\* a Drained node was read: not cordoned
C23_witness ==
    /\ pc = "issue_node_drain"
    /\ snapshot = "drainedstate"
    /\ ~cordoned


\* the positions of the listed pods that are on `node`
on_node(node, list) ==
    { i \in 1 .. Len(list) : list[i].has_spec /\ list[i].node_name = node }

\* the last listed pod on `node`
last_on_node(node, list) ==
    list[CHOOSE i \in on_node(node, list) : \A j \in on_node(node, list) : j <= i]

\* C25 as stated: with several pods listed on the target node,
\* is_data_plane_pod_running returns true exactly when the last of them in listing
\* order has a condition of type Ready with status True, whatever the earlier pods
\* are and in whatever order the pod's conditions come.
C25_last_pod_ready_decides ==
    (pc = "done" /\ Cardinality(on_node(drains[1], pod_list)) >= 2) =>
        (last_poll["is_data_plane_pod_running"] = "true"
            <=> has_ready_condition(last_on_node(drains[1], pod_list)))

\* C26: when a listed pod has no spec or no node name, be it a pod of the target
\* node or not, is_data_plane_pod_running returns the error EmptyPodSpec or
\* EmptyPodNodeName of the first such pod and the run has failed with it; a
\* listing without such a pod gives no error.
C26_unassigned_pod_fails ==
    pc # "is_data_plane_pod_running" =>
        LET bad == { i \in 1 .. Len(pod_list) : unassigned(pod_list[i]) }
        IN  IF bad = {}
            THEN pc = "done" /\ err = None
            ELSE LET first == CHOOSE i \in bad : \A j \in bad : i <= j
                 IN  /\ pc = "failed"
                     /\ last_poll["is_data_plane_pod_running"] = "error"
                     /\ err = IF pod_list[first].has_spec THEN "EmptyPodNodeName"
                                                          ELSE "EmptyPodSpec"

\* an unscheduled pod is listed after a Ready pod of the target node
C26_witness ==
    /\ pc = "failed"
    /\ err = "EmptyPodNodeName"
    /\ Len(pod_list) = 2
    /\ pod_list[1].node_name = drains[1]
    /\ has_ready_condition(pod_list[1])
    /\ pod_list[2].has_spec /\ pod_list[2].node_name = 0


\* C27: the page requests of one is_rebuilding call start with token 0, each later
\* one carries the next_token the page before it returned, none follows a page
\* with a rebuild marker, and there are at most as many as the inventory has pages.
C27_pages_in_sequence ==
    /\ requested # << >> => requested[1] = 0
    /\ \A i \in 2 .. Len(requested) :
          /\ get_volumes(requested[i - 1]).next_token = Some(requested[i])
          /\ no_marker_on(get_volumes(requested[i - 1]).entries)
    /\ Len(requested) <= Len(volumes)
    /\ last_poll["is_rebuilding"] = "false" => Len(requested) = Len(volumes)

\* a marker on the first of two pages: is_rebuilding returned true on one request
C27_witness ==
    /\ Len(volumes) = 2
    /\ ~no_marker_on(volumes[1])
    /\ last_poll["is_rebuilding"] = "true"
    /\ requested = << 0 >>


\* C29: the listing is taken once and not changed afterwards; the for loop goes
\* through it one pod at a time and never past its end; every delete is the delete
\* of the pod of the listing the loop is at, and no pod is deleted twice.
C29_initial_listing_only ==
    [][ /\ pc # "list" => pod_list' = pod_list
        /\ idx' \in {idx, idx + 1} \cap (0 .. Len(pod_list'))
        /\ idx' = idx + 1 => for_pod
        /\ deleted' # deleted =>
              /\ restart_data_plane
              /\ idx \in 1 .. Len(pod_list)
              /\ deleted' = Append(deleted, idx)
              /\ \A i \in 1 .. Len(deleted) : deleted[i] < idx ]_vars

\* both pods of a listing of two were deleted and the run returned Ok
C29_witness == pc = "done" /\ Len(pod_list) = 2 /\ deleted = << 1, 2 >>


\* C30: the upgrade label of a node changes only by a drain request of the
\* orchestrator, which applies it to the node of the pod, or by an uncordon
\* request, which removes it from that node and is made only when the snapshot was
\* not Cordoned; every iteration drains with the label, the Cordoned node included;
\* and when an iteration ends successfully the node of its pod carries the label
\* exactly when its snapshot was Cordoned.
C30_only_upgrade_label ==
    [][ /\ upgrade_label' # upgrade_label =>
              \/ /\ issue_node_drain
                 /\ upgrade_label' = [upgrade_label EXCEPT ![node_name] = TRUE]
              \/ /\ uncordon_node
                 /\ snapshot # "cordonedstate"
                 /\ upgrade_label' = [upgrade_label EXCEPT ![node_name] = FALSE]
        /\ (pc = "issue_node_drain" /\ pc' = "wait_node_drain") =>
              upgrade_label'[node_name]
        /\ (pc = "is_control_plane_running" /\ pc' = "for_pod") =>
              /\ upgrade_label'[node_name] <=> (snapshot = "cordonedstate")
              /\ \E i \in 1 .. Len(drains) : drains[i] = node_name ]_vars

\* an iteration on a node that was Cordoned has ended: the label is still applied
C30_witness ==
    /\ pc = "for_pod"
    /\ idx = 1
    /\ snapshot = "cordonedstate"
    /\ upgrade_label[node_name]
    /\ uncordons = 0


\* where upgrade_data_plane is while it runs
data_plane_pcs ==
    {"list", "for_pod", "is_node_cordoned", "issue_node_drain", "wait_node_drain",
     "wait_for_rebuild", "is_rebuilding", "restart_data_plane", "uncordon_node",
     "verify_data_plane_pod_is_running", "is_control_plane_running"}

no_request_issued == drains = << >> /\ deleted = << >> /\ uncordons = 0

\* the last step main ran
last_step == IF job.trace = << >> THEN "none" ELSE job.trace[Len(job.trace)]

\* C21 as stated: upgrade_data_plane runs only when the restart-data-plane flag is
\* true; and when the flag is false or the helm upgrade failed, be it that helm
\* could not be run or that it exited with a failure, no drain, delete or uncordon
\* request is issued.
C21_data_plane_only_after_chart_upgrade ==
    /\ pc \in data_plane_pcs => job.restart
    /\ (~job.restart \/ job.helm_upgrade \in {"spawn_error", "exit_1"}) =>
          no_request_issued

\* the configuration C22 names: helm absent or not v3, the release not among the
\* deployed ones, a chart directory that is given and invalid, no directory given
\* for the chart variant of the release
invalid_configuration ==
    \/ job.helm_version \in {"absent", "v2"}
    \/ job.short_list = "none"
    \/ job.release = "missing"
    \/ job.umbrella_dir = Some("invalid")
    \/ job.core_dir = Some("invalid")
    \/ /\ job.release \in {"umbrella", "core"}
       /\ chart_dir(job.chart_variant, job.umbrella_dir, job.core_dir).err # None

\* C22: with helm absent or not v3, the release not deployed, a given chart
\* directory invalid or the directory of the release's chart variant not given, the
\* helm upgrade subprocess is never run, upgrade_data_plane is never entered and no
\* drain, delete or uncordon request is issued; the step that reads the fault ends
\* the run with its error (a release that only validate_helm_release let pass, with
\* the panic of release_info), and the process exits with a non-zero status.
C22_invalid_configuration_is_fatal ==
    invalid_configuration =>
        /\ job.helm_upgrade = "none"
        /\ no_request_issued
        /\ pc \notin data_plane_pcs \cup {"HelmClient::upgrade", "done"}
        /\ job.exit # NoValue => (job.exit[1] # 0 /\ (err # None \/ pc = "panicked"))
        /\ job.helm_version = "absent" => (pc = "failed" /\ err = "HelmCommand")
        /\ job.helm_version = "v2" => (pc = "failed" /\ err = "HelmVersion")
        /\ job.short_list = "none" => (pc = "failed" /\ err = "HelmRelease")
        /\ job.release = "missing" => pc = "panicked"
        /\ last_step = "HelmUpgrade::run" =>
              (pc = "failed" /\ err = "NoInputHelmChartDir")

\* the release has the core chart and no core chart directory was given
C22_witness ==
    /\ job.release = "core"
    /\ job.core_dir = NoValue
    /\ job.umbrella_dir = Some("valid")
    /\ err = "NoInputHelmChartDir"
    /\ job.exit = Some(255)

\* C24 as stated, for the runs that got their event recorder: the exit status is
\* non-zero exactly when a startup step or the upgrade returned an error, and it is
\* zero, with the data-plane restart enabled, only when every pod of the initial
\* listing passed the health verification.
C24_nonzero_iff_error_returned ==
    (job.exit # NoValue /\ job.release # "unread") =>
        /\ job.exit[1] # 0 <=> err # None
        /\ (job.exit[1] = 0 /\ job.restart) =>
              (idx = Len(pod_list) /\ verified = 1 .. Len(pod_list))

\* C24, amended: the exit status is non-zero exactly when a step returned an error
\* or panicked; after the error or the panic nothing but the exit follows; and the
\* status is zero, with the data-plane restart enabled, only when the for loop is
\* through the initial listing and every pod of it passed the health verification.
C24_nonzero_iff_error_or_panic ==
    [][ /\ job'.exit # NoValue =>
              /\ job'.exit[1] # 0 <=> pc' \in {"failed", "panicked"}
              /\ pc' = "failed" <=> err' # None
              /\ (job'.exit[1] = 0 /\ job'.restart) =>
                    (idx' = Len(pod_list') /\ verified' = 1 .. Len(pod_list'))
        /\ pc \in {"failed", "panicked"} =>
              /\ job.exit = NoValue
              /\ job' = [job EXCEPT !.exit = job'.exit]
              /\ UNCHANGED << pc, err, run_vars, env_vars >> ]_vars

\* release_info panicked on a release that is not listed: no error was returned
C24_witness ==
    /\ pc = "panicked"
    /\ err = None
    /\ job.release = "missing"
    /\ job.exit = Some(101)

\* C28 as stated: generate_event_recorder_for_k8s_job returns JobPodOwnerNotFound
\* when the owner references are absent or empty, JobPodHasTooManyOwners when there
\* is more than one, JobPodOwnerIsNotJob when the only owner is not a Job, and the
\* recorder otherwise; it never panics.
C28_recorder_iff_single_job_owner ==
    (last_step = "generate_event_recorder_for_k8s_job" /\ job.owner_references # NoValue) =>
        LET owner_references == job.owner_references[1]
        IN  IF owner_references = NoValue \/ owner_references = Some(<< >>)
            THEN pc = "failed" /\ err = "JobPodOwnerNotFound"
            ELSE IF Len(owner_references[1]) > 1
            THEN pc = "failed" /\ err = "JobPodHasTooManyOwners"
            ELSE IF owner_references[1][1] # "Job"
            THEN pc = "failed" /\ err = "JobPodOwnerIsNotJob"
            ELSE pc = "HelmUpgrade::build" /\ err = None


\* no listed pod is on the node, or the one pod on it has no conditions
nothing_to_read_on(node, list) ==
    \/ on_node(node, list) = {}
    \/ /\ Cardinality(on_node(node, list)) = 1
       /\ last_on_node(node, list).conditions \in {NoValue, Some(<< >>)}

\* C31 as stated: is_data_plane_pod_running returns Ok(false) whenever no listed
\* pod is assigned to the target node, and whenever the pod on the node has no
\* status conditions.
C31_false_without_pod_on_node ==
    (pc # "is_data_plane_pod_running" /\ nothing_to_read_on(drains[1], pod_list)) =>
        (pc = "done" /\ last_poll["is_data_plane_pod_running"] = "false")

\* C31, amended: on a listing in which every pod has a spec and a node name,
\* is_data_plane_pod_running returns Ok(false) when no pod is on the target node,
\* when the one pod on it has no conditions or an empty list of them, and when the
\* last of several pods on it has no conditions; a listed pod without spec or node
\* name makes it return the error instead.
C31_false_without_pod_on_node_when_all_assigned ==
    pc # "is_data_plane_pod_running" =>
        IF \E i \in 1 .. Len(pod_list) : unassigned(pod_list[i])
        THEN pc = "failed" /\ err \in {"EmptyPodSpec", "EmptyPodNodeName"}
        ELSE (\/ nothing_to_read_on(drains[1], pod_list)
              \/ last_on_node(drains[1], pod_list).conditions = NoValue) =>
                 (pc = "done" /\ last_poll["is_data_plane_pod_running"] = "false")

\* the only listed pod is Ready on another node
C31_witness ==
    /\ pc = "done"
    /\ last_poll["is_data_plane_pod_running"] = "false"
    /\ Len(pod_list) = 1
    /\ pod_list[1].has_spec
    /\ pod_list[1].node_name \notin {0, drains[1]}
    /\ has_ready_condition(pod_list[1])


\* C32: on a listing without a pod all_pods_are_ready returns true, and the check
\* of the component whose label matched no pod passes without an error.
C32_empty_listing_is_ready ==
    pod_list = << >> =>
        /\ all_pods_are_ready(pod_list)
        /\ pc # "all_pods_are_ready" => (pc = "done" /\ err = None)

\* the check of a component without a pod has passed
C32_witness == pod_list = << >> /\ pc = "done" /\ err = None

=============================================================================
